---- MODULE Spec2Model ----
(***************************************************************************)
(* Trust-boundary layer of the AI tutor backend (latest server revision,   *)
(* src/unnamed/part_004 lines 536-1206; the webhook handler is repeated    *)
(* verbatim in src/server.js lines 465-511):                               *)
(*   - the Lemon Squeezy webhook handler and the profile store it updates, *)
(*   - moderateText and the /api/chat handler that calls it.               *)
(* Strings are sequences of one-character strings.                         *)
(***************************************************************************)
EXTENDS Integers, Sequences, FiniteSets, TLC

VARIABLES
    secret,      \* process.env.LEMONSQUEEZY_WEBHOOK_SECRET ("" when unset)
    supabase,    \* TRUE iff the Supabase client was created at start-up
    store,       \* the profiles table: email -> "absent" | "free" | "premium"
    req,         \* webhook requests in flight, one record per slot
    mod,         \* one moderateText call: its input, the classifier outcome, its verdict
    chat,        \* one /api/chat request
    ver,         \* one signature verification: its inputs and its outcome
    vision,      \* one /api/vision request
    img,         \* one /api/generate-image request
    norm         \* one normalizeKey call: its input and its result

vars == <<secret, supabase, store, req, mod, chat, ver, vision, img, norm>>

(***************************************************************************)
(* Bounds of the model.                                                    *)
(***************************************************************************)
\* number of payload bytes after the two that carry event name and custom data
ExtraBytes == 1
\* webhook requests that may be in flight at once
MaxInFlight == 2
\* a moderated text is built from at most this many pieces
MaxPieces == 3
\* a chat request carries at most this many messages
MaxMessages == 2

Slots == 1..MaxInFlight

(***************************************************************************)
(* Webhook: deliveries, raw body capture, HMAC, payload.                   *)
(***************************************************************************)
Emails == {"a@x", "b@x"}
Secrets == {"s1"}
\* a key the sender may hold that is not the configured one
OtherKeys == {"s2"}

WebhookPath == "/api/webhook"
\* URLs that Express routes to app.post('/api/webhook'): exact, with a query
\* string (originalUrl keeps it), with a trailing slash (non-strict routing)
Urls == {WebhookPath, "/api/webhook?x=1", "/api/webhook/"}

ByteVals == 0..3
BodyLen == 2 + ExtraBytes
Bodies == {b \in [1..BodyLen -> ByteVals] : \A i \in 3..BodyLen : b[i] <= 1}

HexDigits == <<"0", "1", "2", "3", "4", "5", "6", "7",
               "8", "9", "a", "b", "c", "d", "e", "f">>

KeyNum(k) == CASE k = "s1" -> 1 [] k = "s2" -> 2 [] OTHER -> 0

\* crypto.createHmac('sha256', key).update(raw).digest('hex'): a keyed,
\* deterministic digest in lower-case hex whose length does not depend on
\* the key or the bytes.  SHA-256 is idealised as collision free: on the
\* bounded domain this digest is injective in (key, raw).
HmacHex(key, raw) ==
    [i \in 1..(Len(raw) + 1) |->
        HexDigits[((IF i = 1 THEN 7 * KeyNum(key) + 1
                            ELSE 5 * raw[i - 1] + 3 * KeyNum(key) + i) % 16) + 1]]

timingSafeEqualPrefixOnly(a, b) ==
    IF Len(a) # Len(b) THEN "RangeError"
    ELSE IF Len(a) = 0 \/ a[1] = b[1] THEN "equal" ELSE "differ"

\* crypto.timingSafeEqual(a, b): throws a RangeError when the two buffers
\* differ in length, otherwise compares every byte
timingSafeEqual(a, b) ==
    IF Len(a) # Len(b) THEN "RangeError"
    ELSE IF \A i \in 1..Len(a) : a[i] = b[i] THEN "equal" ELSE "differ"

\* express.json's verify hook: req.rawBody is set only when originalUrl is
\* exactly '/api/webhook'
RawBodyCaptured(r) == r.url = WebhookPath

\* req.get('x-signature') || ''
SignatureOf(r) == IF r.sigPresent THEN r.sig ELSE <<>>

EventNames == <<"order_created", "subscription_created", "subscription_updated">>

\* req.body as express.json parsed it from the bytes: byte 1 carries
\* meta.event_name (3: no meta object), byte 2 carries meta.custom_data
\* (0: absent, 1 and 2: user_email of a user, 3: custom_data without
\* user_email), the remaining bytes are other fields of the payload
ParseBody(b) ==
    [hasMeta       |-> b[1] # 3,
     event_name    |-> IF b[1] # 3 THEN EventNames[b[1] + 1] ELSE "undefined",
     hasCustomData |-> b[2] # 0,
     user_email    |-> CASE b[2] = 1 -> "a@x" [] b[2] = 2 -> "b@x" [] OTHER -> "undefined"]

Qualifying(name) == name = "order_created" \/ name = "subscription_created"

NextHex(c) == HexDigits[((CHOOSE i \in 1..16 : HexDigits[i] = c) % 16) + 1]
FlipAt(s, i) == [s EXCEPT ![i] = NextHex(s[i])]

\* the bodies that differ from b in exactly one byte
OneByteChanged(b) ==
    {bb \in Bodies : Cardinality({i \in 1..BodyLen : bb[i] # b[i]}) = 1}

\* x-signature values a sender may supply for body b: the digest under the
\* configured key or another key, the digest with one character changed,
\* cut short or extended, and the digest of a body one byte away from b
SigCandidates(b) ==
    LET d == HmacHex("s1", b)
    IN  {d} \cup {HmacHex(k, b) : k \in OtherKeys}
        \cup {FlipAt(d, i) : i \in 1..Len(d)}
        \cup {SubSeq(d, 1, Len(d) - 1), d \o <<"0">>}
        \cup {HmacHex("s1", bb) : bb \in OneByteChanged(b)}

\* the deliveries: every signature to the exact path, and to the other
\* URLs the correctly signed and the unsigned delivery
Requests ==
    UNION {{[url |-> WebhookPath, body |-> b, sigPresent |-> TRUE, sig |-> g] :
               g \in SigCandidates(b)} : b \in Bodies}
    \cup {[url |-> u, body |-> b, sigPresent |-> TRUE, sig |-> HmacHex("s1", b)] :
             u \in Urls, b \in Bodies}
    \cup {[url |-> u, body |-> b, sigPresent |-> FALSE, sig |-> <<>>] :
             u \in Urls, b \in Bodies}

NoRequest == [url |-> "", body |-> <<>>, sigPresent |-> FALSE, sig |-> <<>>]

VerifySignatureSkipped(sec, raw, sig) == "equal"

\* the digest of the raw body under the secret, compared with the
\* x-signature value
VerifySignature(sec, raw, sig) == timingSafeEqual(HmacHex(sec, raw), sig)

SecretMissingNever(s) == FALSE

\* if (!secret)
SecretMissing(s) == s = ""

\* if (!req.rawBody)
RawBodyMissing(r) == ~RawBodyCaptured(r)

Respond(status, text, evaluated) ==
    [next |-> "respond", status |-> status, text |-> text,
     evaluated |-> evaluated, email |-> "undefined"]

\* the handler from its entry to its first await or its response
WebhookSync(r, sec, sb) ==
    IF SecretMissing(sec) THEN Respond(500, "Webhook secret missing", FALSE)
    ELSE IF RawBodyMissing(r) THEN Respond(400, "Raw body missing", FALSE)
    ELSE LET cmp == VerifySignature(sec, r.body, SignatureOf(r))
             p == ParseBody(r.body)
         IN  IF cmp = "RangeError" THEN Respond(500, "Internal Server Error", TRUE)
             ELSE IF cmp = "differ" THEN Respond(401, "Invalid signature", TRUE)
             \* payload.meta.event_name / payload.meta.custom_data.user_email
             \* raise a TypeError on a missing object: caught, 500
             ELSE IF ~p.hasMeta \/ ~p.hasCustomData
                  THEN Respond(500, "Internal Server Error", TRUE)
             ELSE IF Qualifying(p.event_name) /\ sb
                  THEN [next |-> "awaitStore", status |-> 0, text |-> "",
                        evaluated |-> TRUE, email |-> p.user_email]
             ELSE Respond(200, "OK", TRUE)

\* supabase.from('profiles').update({is_premium: true}).eq('email', e):
\* sets the flag on the rows whose email is e; no row is created
SupabaseUpdate(st, e) ==
    [x \in Emails |-> IF x = e /\ st[x] # "absent" THEN "premium" ELSE st[x]]

StoreOutcomes == {"ok", "error", "threw"}

AfterStoreAlwaysOk(result) == [status |-> 200, text |-> "OK"]

\* the handler after the awaited update: { error } set, the promise
\* rejected, or success
AfterStore(result) ==
    CASE result = "error" -> [status |-> 500, text |-> "Database update failed"]
      [] result = "threw" -> [status |-> 500, text |-> "Internal Server Error"]
      [] OTHER -> [status |-> 200, text |-> "OK"]

IdleSlot ==
    [pc |-> "idle", r |-> NoRequest, status |-> 0, text |-> "", evaluated |-> FALSE,
     email |-> "undefined", storeResult |-> "none", before |-> [x \in Emails |-> "absent"],
     replay |-> FALSE]

WebhookInit ==
    /\ secret \in {""} \cup Secrets
    /\ supabase \in BOOLEAN
    /\ store \in [Emails -> {"absent", "free", "premium"}]
    /\ req = [i \in Slots |-> IdleSlot]

\* a handler that would issue the update on entry, before any check
StoreAfterSyncEager(st, r) == SupabaseUpdate(st, ParseBody(r.body).user_email)

\* the profiles table after the handler's run to its first await or its
\* response: no store call is made there
StoreAfterSync(st, r) == st

\* the handler of slot i runs on delivery r to its first await or its response
Handle(i, r) ==
    LET o == WebhookSync(r, secret, supabase)
    IN  /\ store' = StoreAfterSync(store, r)
        /\ req' = [req EXCEPT ![i] =
                      [pc |-> IF o.next = "awaitStore" THEN "awaitStore" ELSE "done",
                       r |-> r, status |-> o.status, text |-> o.text,
                       evaluated |-> o.evaluated, email |-> o.email,
                       storeResult |-> "none", before |-> store,
                       \* the delivery repeats the one this slot handled last
                       replay |-> req[i].r = r]]

\* a delivery arrives at the free slot i
WebhookReceive(i, r) ==
    /\ req[i].pc = "idle"
    /\ Handle(i, r)
    /\ UNCHANGED <<secret, supabase, mod, chat, ver, vision, img, norm>>

\* the sender delivers the event of slot i once more
WebhookRedeliver(i) ==
    /\ req[i].pc = "done"
    /\ Handle(i, req[i].r)
    /\ UNCHANGED <<secret, supabase, mod, chat, ver, vision, img, norm>>

\* the response of slot i is sent and its request object dropped
WebhookRelease(i) ==
    /\ req[i].pc = "done"
    /\ req' = [req EXCEPT ![i] = IdleSlot]
    /\ UNCHANGED <<secret, supabase, store, mod, chat, ver, vision, img, norm>>

\* the awaited update of slot i completes and the handler responds
StoreReply(i, result) ==
    /\ req[i].pc = "awaitStore"
    /\ store' = IF result = "ok" THEN SupabaseUpdate(store, req[i].email) ELSE store
    /\ req' = [req EXCEPT ![i] =
                  [@ EXCEPT !.pc = "done", !.status = AfterStore(result).status,
                            !.text = AfterStore(result).text, !.storeResult = result]]
    /\ UNCHANGED <<secret, supabase, mod, chat, ver, vision, img, norm>>

(***************************************************************************)
(* Credential normaliser.  A value of process.env is a record: set = FALSE *)
(* for undefined, else val holds its characters.                           *)
(***************************************************************************)
IsSpace(c) == c \in {" ", "\t"}
IsQuote(c) == c \in {"'", "\""}

RECURSIVE TrimStart(_)
TrimStart(s) == IF s # <<>> /\ IsSpace(Head(s)) THEN TrimStart(Tail(s)) ELSE s

RECURSIVE TrimEnd(_)
TrimEnd(s) ==
    IF s # <<>> /\ IsSpace(s[Len(s)]) THEN TrimEnd(SubSeq(s, 1, Len(s) - 1)) ELSE s

\* key.trim()
Trim(s) == TrimEnd(TrimStart(s))

\* clean.replace(/^["']|["']$/g, ''): one quote at the start and one at the
\* end are removed
StripQuotes(s) ==
    LET t == IF s # <<>> /\ IsQuote(Head(s)) THEN Tail(s) ELSE s
    IN  IF t # <<>> /\ IsQuote(t[Len(t)]) THEN SubSeq(t, 1, Len(t) - 1) ELSE t

\* clean.replace(/\s+/g, '')
RemoveSpaces(s) == SelectSeq(s, LAMBDA c : ~IsSpace(c))

StartsWith(s, pre) == Len(s) >= Len(pre) /\ SubSeq(s, 1, Len(pre)) = pre

Null == [isNull |-> TRUE, val |-> <<>>]

\* a test that would rewrite every key that starts with 'sk'
NeedsSeparatorAnySk(clean) == StartsWith(clean, <<"s", "k">>)

\* clean.startsWith('sk') && !clean.startsWith('sk_') && !clean.startsWith('sk-')
NeedsSeparator(clean) ==
    /\ StartsWith(clean, <<"s", "k">>)
    /\ ~StartsWith(clean, <<"s", "k", "_">>)
    /\ ~StartsWith(clean, <<"s", "k", "-">>)

\* key is undefined or null (set = FALSE) or a string
normalizeKey(key) ==
    IF ~key.set \/ key.val = <<>> THEN Null
    ELSE LET clean == RemoveSpaces(StripQuotes(Trim(key.val)))
         IN  [isNull |-> FALSE,
              val |-> IF NeedsSeparator(clean)
                      THEN <<"s", "k", "_">> \o SubSeq(clean, 3, Len(clean))
                      ELSE clean]

\* a JavaScript truth test of normalizeKey's result
Truthy(k) == ~k.isNull /\ k.val # <<>>

Unset == [set |-> FALSE, val |-> <<>>]
EnvValue(s) == [set |-> TRUE, val |-> s]

(***************************************************************************)
(* Content moderation.                                                     *)
(***************************************************************************)
\* the terms of BLOCKED_TERMS the model keeps, in the order of the list
BLOCKED_TERMS ==
    << <<"k", "i", "l", "l">>,
       <<"g", "u", "n">>,
       <<"g", "e", "t", " ", "h", "i", "g", "h">> >>

\* [A-Za-z0-9_], the characters \b takes for word characters; a letter
\* outside ASCII is not one of them
IsWordChar(c) ==
    c \in {"k", "i", "l", "g", "u", "n", "e", "t", "h", "s", "G", "K", "1", "_"}

\* String.prototype.toLowerCase, character by character
ToLowerChar(c) == CASE c = "G" -> "g" [] c = "K" -> "k" [] OTHER -> c
ToLower(s) == [i \in 1..Len(s) |-> ToLowerChar(s[i])]

\* s[k] exists and is a word character
WordAt(s, k) == k >= 1 /\ k <= Len(s) /\ IsWordChar(s[k])

\* \b between s[k] and s[k + 1]
WordBoundary(s, k) == WordAt(s, k) # WordAt(s, k + 1)

MatchAtAnchored(term, s, p) == p = 1 /\ s = term

\* new RegExp(`(^|\\s|\\b)${escaped}(\\s|\\b|$)`, 'i') matches s with the
\* term at position p.  No term of the list holds a regex metacharacter, so
\* the escaped term matches itself, character by character.
MatchAt(term, s, p) ==
    LET q == p + Len(term) - 1
    IN  /\ q <= Len(s)
        /\ SubSeq(s, p, q) = term
        /\ \/ p = 1
           \/ IsSpace(s[p - 1])
           \/ WordBoundary(s, p - 1)
        /\ \/ q = Len(s)
           \/ IsSpace(s[q + 1])
           \/ WordBoundary(s, q)

\* pattern.test(lower)
PatternTest(term, s) == \E p \in 1..Len(s) : MatchAt(term, s, p)

NotBlocked == [blocked |-> FALSE, layer |-> "none", term |-> <<>>, categories |-> {}]

\* what the moderation endpoint can do to one call.  categories is the set
\* of category names whose flag is true.
ClassifierReplies ==
    {[kind |-> k, categories |-> {}] :
        k \in {"threw", "notok", "badjson", "noresults", "clean", "flaggedNoCategories"}}
    \cup {[kind |-> "flagged", categories |-> c] : c \in {{"violence"}, {"violence", "sexual"}}}

NotCalled == [kind |-> "notcalled", categories |-> {}]

\* a first layer that would also block when the call fails
Layer1BlocksFailClosed(openAiEnv, reply) ==
    /\ Truthy(normalizeKey(openAiEnv))
    /\ reply.kind \in {"flagged", "threw", "notok"}

\* Layer 1: TRUE iff the call returned a result with flagged set and the
\* categories could be listed; every other outcome, a TypeError on a
\* missing categories object included, falls through to layer 2
Layer1Blocks(openAiEnv, reply) ==
    /\ Truthy(normalizeKey(openAiEnv))
    /\ reply.kind = "flagged"

\* Layer 2: the first term of the list whose pattern matches
KeywordLayer(lower) ==
    IF \E i \in 1..Len(BLOCKED_TERMS) : PatternTest(BLOCKED_TERMS[i], lower)
    THEN LET i == CHOOSE j \in 1..Len(BLOCKED_TERMS) :
                      /\ PatternTest(BLOCKED_TERMS[j], lower)
                      /\ \A k \in 1..(j - 1) : ~PatternTest(BLOCKED_TERMS[k], lower)
         IN  [blocked |-> TRUE, layer |-> "keyword", term |-> BLOCKED_TERMS[i],
              categories |-> {}]
    ELSE NotBlocked

\* text is a record: isString = FALSE for a value that is no string
moderateText(text, openAiEnv, reply) ==
    IF ~text.isString \/ text.chars = <<>> THEN NotBlocked
    ELSE IF Layer1Blocks(openAiEnv, reply)
         THEN [blocked |-> TRUE, layer |-> "openai", term |-> <<>>,
               categories |-> reply.categories]
         ELSE KeywordLayer(ToLower(text.chars))

(***************************************************************************)
(* Specification of the webhook handler, one delivery at a time.           *)
(***************************************************************************)
NoModeration == [pc |-> "off"]
NoChat == [pc |-> "off"]
NoVerification == [pc |-> "off"]
NoVision == [pc |-> "off"]
NoImage == [pc |-> "off"]
NoNormalize == [pc |-> "off"]

Init ==
    /\ WebhookInit
    /\ mod = NoModeration
    /\ chat = NoChat
    /\ ver = NoVerification
    /\ vision = NoVision /\ img = NoImage /\ norm = NoNormalize

Next ==
    \/ \E r \in Requests : WebhookReceive(1, r)
    \/ WebhookRedeliver(1)
    \/ WebhookRelease(1)
    \/ \E result \in StoreOutcomes : StoreReply(1, result)

Spec == Init /\ [][Next]_vars

(***************************************************************************)
(* Properties of the webhook handler.                                      *)
(***************************************************************************)
\* the delivery carries the hex HMAC-SHA256 of its captured raw body under
\* the configured secret
SigOk(r) ==
    /\ secret # ""
    /\ RawBodyCaptured(r)
    /\ r.sigPresent
    /\ r.sig = HmacHex(secret, r.body)

QualifyingDelivery(r) ==
    /\ ParseBody(r.body).hasMeta
    /\ Qualifying(ParseBody(r.body).event_name)

\* C1: a profile becomes premium only in the step that completes the store
\* update of a request whose x-signature equalled the hex HMAC of that
\* request's raw body under the configured secret; a request with the secret
\* missing, the raw body missing or a wrong signature never waits for the
\* store.
C1_PremiumOnlyAfterVerification ==
    [][/\ \A e \in Emails :
            (store'[e] = "premium" /\ store[e] # "premium") =>
                \E i \in Slots : /\ req[i].pc = "awaitStore"
                                 /\ req'[i].pc = "done"
                                 /\ req[i].email = e
                                 /\ SigOk(req[i].r)
       /\ \A i \in Slots : req'[i].pc = "awaitStore" => SigOk(req'[i].r)]_vars

C1_Witness ==
    \E i \in Slots :
        /\ req[i].pc = "done" /\ req[i].storeResult = "ok" /\ SigOk(req[i].r)
        /\ req[i].email \in Emails
        /\ req[i].before[req[i].email] = "free"
        /\ store[req[i].email] = "premium"

\* C3 (as claimed): with the secret configured and the raw body present,
\* every signature that does not match the digest, whatever its length and
\* also when the header is absent, is answered with 401.
C3_MismatchIs401 ==
    \A i \in Slots :
        (/\ req[i].pc = "done"
         /\ secret # ""
         /\ RawBodyCaptured(req[i].r)
         /\ SignatureOf(req[i].r) # HmacHex(secret, req[i].r.body))
        => req[i].status = 401

\* C5 (as claimed): after a verified qualifying event for a user was
\* answered 200, delivered once or again, the store has is_premium = true
\* for that user's email, and a repeated delivery changed nothing.
C5_ReplayLeavesPremium ==
    \A i \in Slots :
        (/\ req[i].pc = "done" /\ req[i].status = 200
         /\ SigOk(req[i].r) /\ QualifyingDelivery(req[i].r)
         /\ ParseBody(req[i].r.body).user_email \in Emails)
        => /\ store[ParseBody(req[i].r.body).user_email] = "premium"
           /\ (req[i].replay => store = req[i].before)

\* C6: when the store update of a verified qualifying event returns an
\* error (or its promise rejects), the handler answers 500, never 200.
C6_StoreErrorIs500 ==
    \A i \in Slots :
        (req[i].pc = "done" /\ req[i].storeResult \in {"error", "threw"})
        => req[i].status = 500

C6_Witness ==
    \E i \in Slots :
        /\ req[i].pc = "done" /\ req[i].storeResult = "error"
        /\ req[i].status = 500 /\ req[i].text = "Database update failed"
        /\ SigOk(req[i].r) /\ QualifyingDelivery(req[i].r)

\* C7 (as claimed): a verified qualifying event is answered 200 only if
\* the premium write was issued and succeeded in that request.
C7_AckOnlyAfterWrite ==
    \A i \in Slots :
        (/\ req[i].pc = "done" /\ req[i].status = 200
         /\ SigOk(req[i].r) /\ QualifyingDelivery(req[i].r))
        => req[i].storeResult = "ok"

\* C8: a missing secret always yields 500 and a missing raw body (secret
\* present) always yields 400; in both cases the signature is not
\* evaluated, the store is not called and not changed, and the answer is
\* not 401.
C8_FailClosedOnFaults ==
    \A i \in Slots :
        req[i].pc # "idle" =>
            /\ secret = "" =>
                  /\ req[i].pc = "done" /\ req[i].status = 500
                  /\ ~req[i].evaluated /\ req[i].storeResult = "none"
                  /\ store = req[i].before
            /\ (secret # "" /\ ~RawBodyCaptured(req[i].r)) =>
                  /\ req[i].pc = "done" /\ req[i].status = 400
                  /\ ~req[i].evaluated /\ req[i].storeResult = "none"
                  /\ store = req[i].before

C8_Witness ==
    \E i \in Slots :
        /\ req[i].pc = "done" /\ secret # "" /\ ~RawBodyCaptured(req[i].r)
        /\ req[i].r.sigPresent /\ req[i].r.sig = HmacHex(secret, req[i].r.body)
        /\ QualifyingDelivery(req[i].r)
        /\ req[i].status = 400 /\ req[i].text = "Raw body missing"

\* C9 (as claimed): a verified event whose name is neither order_created
\* nor subscription_created is answered 200 without a store write, whatever
\* else the payload holds, an absent custom_data object included.
C9_OtherEventAccepted ==
    \A i \in Slots :
        (/\ req[i].pc = "done" /\ SigOk(req[i].r)
         /\ ParseBody(req[i].r.body).hasMeta
         /\ ~Qualifying(ParseBody(req[i].r.body).event_name))
        => /\ req[i].status = 200
           /\ req[i].storeResult = "none"
           /\ store = req[i].before

(***************************************************************************)
(* Signature verification on its own: a payload, the payload the sender    *)
(* signed, and the signature supplied with it.                             *)
(***************************************************************************)
\* the strings that differ from d in exactly one position
OneCharChanged(d) ==
    {[d EXCEPT ![i] = HexDigits[j]] : i \in 1..Len(d), j \in 1..16} \ {d}

VerifyInputs ==
    UNION {
        {[pc |-> "in", key |-> k, payload |-> b, signed |-> b, sig |-> g, result |-> "none"] :
            g \in {HmacHex(k, b)} \cup OneCharChanged(HmacHex(k, b))}
        \cup
        {[pc |-> "in", key |-> k, payload |-> b, signed |-> q, sig |-> HmacHex(k, q),
          result |-> "none"] : q \in OneByteChanged(b)}
        : k \in Secrets \cup OtherKeys, b \in Bodies}

VerifyInit ==
    /\ ver \in VerifyInputs
    /\ secret = "" /\ supabase = FALSE
    /\ store = [x \in Emails |-> "absent"]
    /\ req = [i \in Slots |-> IdleSlot]
    /\ mod = NoModeration /\ chat = NoChat
    /\ vision = NoVision /\ img = NoImage /\ norm = NoNormalize

Verify ==
    /\ ver.pc = "in"
    /\ ver' = [ver EXCEPT !.pc = "out",
                          !.result = VerifySignature(ver.key, ver.payload, ver.sig)]
    /\ UNCHANGED <<secret, supabase, store, req, mod, chat, vision, img, norm>>

SpecVerify == VerifyInit /\ [][Verify]_vars

\* C4: the check passes when the supplied signature is the hex HMAC of the
\* payload under the secret, and fails when one byte of the payload (the
\* signature being that of the unchanged payload) or one character of the
\* signature is changed.
C4_ExactSignatureOnly ==
    ver.pc = "out" =>
        /\ (ver.signed = ver.payload /\ ver.sig = HmacHex(ver.key, ver.signed))
               => ver.result = "equal"
        /\ ver.signed # ver.payload => ver.result # "equal"
        /\ ver.sig \in OneCharChanged(HmacHex(ver.key, ver.signed))
               => ver.result # "equal"

C4_Witness ==
    /\ ver.pc = "out" /\ ver.signed = ver.payload
    /\ ver.sig \in OneCharChanged(HmacHex(ver.key, ver.payload))
    /\ ver.sig[1] = HmacHex(ver.key, ver.payload)[1]
    /\ ver.result = "differ"

(***************************************************************************)
(* moderateText on its own: a text, the configured OPENAI_API_KEY and the  *)
(* moderation endpoint's reply to the call, if one is made.                *)
(***************************************************************************)
\* the pieces texts are built from: two blocklisted words (one of them
\* capitalised), the two words of a two-word term, white space,
\* punctuation, an ASCII letter and a letter outside ASCII
Pieces ==
    { <<"k", "i", "l", "l">>, <<"G", "u", "n">>, <<"g", "e", "t">>, <<"h", "i", "g", "h">>,
      <<" ">>, <<"!">>, <<"s">>, <<"é">> }

StringValue(t) == [isString |-> TRUE, chars |-> t]
\* a value that is not a string, such as an array of content parts
NonString == [isString |-> FALSE, chars |-> <<>>]

OpenAiEnvs == {Unset, EnvValue(<<>>), EnvValue(<<" ">>), EnvValue(<<"s", "k", "-", "1">>)}

RepliesFor(env) == IF Truthy(normalizeKey(env)) THEN ClassifierReplies ELSE {NotCalled}

\* the call starts with the empty string or a value that is no string;
\* count is the number of pieces the text holds
ModerateInit ==
    /\ mod \in UNION {{[pc |-> "in", text |-> x, count |-> 0, env |-> e, reply |-> r,
                        verdict |-> NotBlocked] :
                          x \in {StringValue(<<>>), NonString}, r \in RepliesFor(e)} :
                      e \in OpenAiEnvs}
    /\ secret = "" /\ supabase = FALSE
    /\ store = [x \in Emails |-> "absent"]
    /\ req = [i \in Slots |-> IdleSlot]
    /\ chat = NoChat /\ ver = NoVerification
    /\ vision = NoVision /\ img = NoImage /\ norm = NoNormalize

\* the caller's text grows by one piece
Compose(piece) ==
    /\ mod.pc = "in" /\ mod.text.isString /\ mod.count < MaxPieces
    /\ mod' = [mod EXCEPT !.text = StringValue(mod.text.chars \o piece),
                          !.count = mod.count + 1]
    /\ UNCHANGED <<secret, supabase, store, req, chat, ver, vision, img, norm>>

\* moderateText runs on the text
Moderate ==
    /\ mod.pc = "in"
    /\ mod' = [mod EXCEPT !.pc = "out",
                          !.verdict = moderateText(mod.text, mod.env, mod.reply)]
    /\ UNCHANGED <<secret, supabase, store, req, chat, ver, vision, img, norm>>

ModerateNext ==
    \/ \E piece \in Pieces : Compose(piece)
    \/ Moderate

SpecModerate == ModerateInit /\ [][ModerateNext]_vars

\* the term stands in s as a word of its own: the start of the string or
\* white space before it, white space or the end of the string after it
DelimitedWord(term, s) ==
    \E p \in 1..Len(s) :
        LET q == p + Len(term) - 1
        IN  /\ q <= Len(s)
            /\ SubSeq(ToLower(s), p, q) = term
            /\ (p = 1 \/ IsSpace(s[p - 1]))
            /\ (q = Len(s) \/ IsSpace(s[q + 1]))

Occurs(term, s) ==
    \E p \in 1..Len(s) : p + Len(term) - 1 <= Len(s) /\ SubSeq(s, p, p + Len(term) - 1) = term

TermSet == {BLOCKED_TERMS[i] : i \in 1..Len(BLOCKED_TERMS)}

\* C10: a text that holds a blocklisted term as a separate
\* whitespace-delimited word is blocked, and unless the classifier itself
\* blocked it the verdict's layer is 'keyword' and its term is a blocklisted
\* term that occurs in the lower-cased text.
C10_DelimitedTermBlocked ==
    (/\ mod.pc = "out" /\ mod.text.isString
     /\ \E t \in TermSet : DelimitedWord(t, mod.text.chars))
    => /\ mod.verdict.blocked
       /\ mod.reply.kind # "flagged" =>
              /\ mod.verdict.layer = "keyword"
              /\ mod.verdict.term \in TermSet
              /\ Occurs(mod.verdict.term, ToLower(mod.text.chars))

C10_Witness ==
    /\ mod.pc = "out"
    /\ mod.text = StringValue(<<"s", " ", "G", "u", "n">>)
    /\ mod.reply.kind = "threw"
    /\ mod.verdict.blocked /\ mod.verdict.layer = "keyword"
    /\ mod.verdict.term = <<"g", "u", "n">>

\* a letter or a digit, of any alphabet
IsLetterOrDigit(c) == (IsWordChar(c) /\ c # "_") \/ c = "é"

\* every occurrence of a blocklisted term in s has a letter or a digit
\* directly before it or directly after it, and there is such an occurrence
OnlyInsideLongerWords(s) ==
    LET lower == ToLower(s)
        At(t, p) == p + Len(t) - 1 <= Len(s) /\ SubSeq(lower, p, p + Len(t) - 1) = t
    IN  /\ \E t \in TermSet : Occurs(t, lower)
        /\ \A t \in TermSet : \A p \in 1..Len(s) :
              At(t, p) => \/ (p > 1 /\ IsLetterOrDigit(s[p - 1]))
                          \/ (p + Len(t) <= Len(s) /\ IsLetterOrDigit(s[p + Len(t)]))

\* C11: a text in which every occurrence of a blocklisted term is part of a
\* longer word (a letter or digit directly before or after it), and which
\* the classifier does not flag, is not blocked.
C11_SubstringNotBlocked ==
    (/\ mod.pc = "out" /\ mod.text.isString
     /\ mod.reply.kind # "flagged"
     /\ OnlyInsideLongerWords(mod.text.chars))
    => ~mod.verdict.blocked

\* the classifier was called and the call failed: fetch threw (a network
\* error or a timeout) or the endpoint answered with a non-success status
ClassifierFailed ==
    /\ mod.text.isString /\ mod.text.chars # <<>>
    /\ Truthy(normalizeKey(mod.env))
    /\ mod.reply.kind \in {"threw", "notok"}

\* C12: when the classifier call fails, moderateText returns the verdict of
\* the keyword layer alone: blocked with layer 'keyword' and the first
\* matching term if a term's pattern matches, not blocked otherwise.
C12_ClassifierFailureFallsBack ==
    (mod.pc = "out" /\ ClassifierFailed) =>
        LET lower == ToLower(mod.text.chars)
            hit == \E t \in TermSet : PatternTest(t, lower)
        IN  /\ mod.verdict.blocked = hit
            /\ hit => /\ mod.verdict.layer = "keyword"
                      /\ PatternTest(mod.verdict.term, lower)
                      /\ mod.verdict.categories = {}
            /\ ~hit => mod.verdict = NotBlocked
            /\ mod.verdict = KeywordLayer(lower)

C12_Witness ==
    /\ mod.pc = "out" /\ ClassifierFailed
    /\ mod.reply.kind = "notok"
    /\ mod.text = StringValue(<<"s", "k", "i", "l", "l">>)
    /\ ~mod.verdict.blocked

(***************************************************************************)
(* The /api/chat handler.                                                  *)
(***************************************************************************)
Placeholder ==
    <<"y", "o", "u", "r", "_", "o", "p", "e", "n", "r", "o", "u", "t", "e", "r", "_",
      "k", "e", "y", "_", "h", "e", "r", "e">>

RouterEnvs == {Unset, EnvValue(Placeholder), EnvValue(<<"s", "k", "-", "o", "r">>)}
ChatOpenAiEnvs == {Unset, EnvValue(<<"s", "k", "-", "1">>)}

Roles == {"system", "user", "assistant"}
\* message contents: the empty string, a harmless text, a text holding a
\* blocklisted word, an array of content parts
ChatContents ==
    {StringValue(<<>>), StringValue(<<"s">>), StringValue(<<"G", "u", "n">>), NonString}

Messages == [role : Roles, content : ChatContents]

RECURSIVE MessageLists(_)
MessageLists(n) ==
    IF n = 0 THEN {<<>>}
    ELSE LET prev == MessageLists(n - 1)
         IN  prev \cup {Append(l, m) : l \in prev, m \in Messages}

\* !apiKey || apiKey === 'your_openrouter_key_here'
ApiKeyMissing(routerEnv) ==
    LET apiKey == normalizeKey(routerEnv)
    IN  ~Truthy(apiKey) \/ apiKey.val = Placeholder

\* a handler that would scan the first user message
FirstUserText(messages) ==
    LET userMessages == SelectSeq(messages, LAMBDA m : m.role = "user")
    IN  IF Len(userMessages) > 0 THEN userMessages[1].content ELSE StringValue(<<>>)

\* userMessages.length > 0 ? userMessages[userMessages.length - 1].content : ''
LastUserText(messages) ==
    LET userMessages == SelectSeq(messages, LAMBDA m : m.role = "user")
    IN  IF Len(userMessages) > 0 THEN userMessages[Len(userMessages)].content
        ELSE StringValue(<<>>)

\* if (lastUserText): every value but the empty string is truthy
JsTruthy(v) == ~v.isString \/ v.chars # <<>>

\* a moderateText that would call the classifier for any value
ClassifierCalledForAny(text, openAiEnv) == Truthy(normalizeKey(openAiEnv))

\* moderateText reaches its fetch of the moderation endpoint
ClassifierCalled(text, openAiEnv) ==
    /\ text.isString /\ text.chars # <<>>
    /\ Truthy(normalizeKey(openAiEnv))

AfterModerationForward(verdict) == "callLLM"

\* if (modResult.blocked) return res.status(451).json(BLOCKED_RESPONSE)
AfterModeration(verdict) == IF verdict.blocked THEN "respond451" ELSE "callLLM"

LLMReplies ==
    {[kind |-> "threw", status |-> 0], [kind |-> "ok", status |-> 200],
     [kind |-> "noChoices", status |-> 200],
     [kind |-> "notok", status |-> 429], [kind |-> "notok", status |-> 451]}

\* moderateText has not been called
NotScanned == [isString |-> FALSE, chars |-> <<"none">>]

IdleChat(routerEnv, openAiEnv) ==
    [pc |-> "idle", routerEnv |-> routerEnv, openAiEnv |-> openAiEnv, messages |-> <<>>,
     moderated |-> FALSE, verdict |-> NotBlocked, llmCalls |-> 0, forwarded |-> <<>>,
     \* the value handed to moderateText and the number of classifier calls
     scanned |-> NotScanned, classifierCalls |-> 0,
     status |-> 0, body |-> "none"]

ChatInit ==
    /\ chat \in {IdleChat(r, o) : r \in RouterEnvs, o \in ChatOpenAiEnvs}
    /\ secret = "" /\ supabase = FALSE
    /\ store = [x \in Emails |-> "absent"]
    /\ req = [i \in Slots |-> IdleSlot]
    /\ mod = NoModeration /\ ver = NoVerification
    /\ vision = NoVision /\ img = NoImage /\ norm = NoNormalize

\* a handler that would answer a blocked message like any other failure
BlockedReplyAsError == [status |-> 500, body |-> "error"]

\* res.status(451).json(BLOCKED_RESPONSE)
BlockedReply == [status |-> 451, body |-> "BLOCKED_RESPONSE"]

\* the handler's continuation once the verdict is known (or moderation was
\* skipped): answer 451, or issue the fetch to OpenRouter with the messages
Continue(c, moderated, verdict) ==
    IF moderated /\ AfterModeration(verdict) = "respond451"
    THEN [c EXCEPT !.pc = "done", !.moderated = moderated, !.verdict = verdict,
                   !.status = BlockedReply.status, !.body = BlockedReply.body]
    ELSE [c EXCEPT !.pc = "awaitLLM", !.moderated = moderated, !.verdict = verdict,
                   !.llmCalls = c.llmCalls + 1, !.forwarded = c.messages]

\* a request arrives and runs to its first await or its response
ChatReceive(messages) ==
    /\ chat.pc = "idle"
    /\ LET c == [chat EXCEPT !.messages = messages]
           text == LastUserText(messages)
           m == [c EXCEPT !.scanned = text]
       IN  chat' =
             IF ApiKeyMissing(chat.routerEnv)
             THEN [c EXCEPT !.pc = "done", !.status = 500, !.body = "error"]
             ELSE IF ~JsTruthy(text) THEN Continue(c, FALSE, NotBlocked)
             ELSE IF ClassifierCalled(text, chat.openAiEnv)
                  THEN [m EXCEPT !.pc = "awaitClassifier", !.classifierCalls = 1]
             ELSE Continue(m, TRUE, moderateText(text, chat.openAiEnv, NotCalled))
    /\ UNCHANGED <<secret, supabase, store, req, mod, ver, vision, img, norm>>

\* the moderation endpoint answers (or the fetch fails) and moderateText returns
ClassifierReply(reply) ==
    /\ chat.pc = "awaitClassifier"
    /\ chat' = Continue(chat, TRUE,
                        moderateText(LastUserText(chat.messages), chat.openAiEnv, reply))
    /\ UNCHANGED <<secret, supabase, store, req, mod, ver, vision, img, norm>>

\* OpenRouter answers (or the fetch fails) and the handler responds
LLMReply(reply) ==
    /\ chat.pc = "awaitLLM"
    /\ chat' = [chat EXCEPT
                  !.pc = "done",
                  !.status = CASE reply.kind = "ok" -> 200
                               [] reply.kind = "notok" -> reply.status
                               [] OTHER -> 500,
                  !.body = IF reply.kind = "ok" THEN "response" ELSE "error"]
    /\ UNCHANGED <<secret, supabase, store, req, mod, ver, vision, img, norm>>

ChatNext ==
    \/ \E m \in MessageLists(MaxMessages) : ChatReceive(m)
    \/ \E reply \in ClassifierReplies : ClassifierReply(reply)
    \/ \E reply \in LLMReplies : LLMReply(reply)

SpecChat == ChatInit /\ [][ChatNext]_vars

\* C2: when moderateText returns blocked for the last user message, the
\* request makes no call to the OpenRouter endpoint, neither before nor
\* after the verdict: it ends with the 451 answer.
C2_BlockedNeverForwarded ==
    /\ (chat.moderated /\ chat.verdict.blocked) =>
           /\ chat.llmCalls = 0 /\ chat.forwarded = <<>>
           /\ chat.pc = "done" /\ chat.status = 451
    /\ chat.pc = "awaitClassifier" => chat.llmCalls = 0

C2_Witness ==
    /\ chat.pc = "done" /\ chat.moderated /\ chat.verdict.blocked
    /\ chat.verdict.layer = "keyword"
    /\ Len(chat.messages) = MaxMessages
    /\ chat.status = 451 /\ chat.llmCalls = 0

\* C14: a blocked message is answered with status 451 and the fixed body
\* BLOCKED_RESPONSE, whatever the message and whichever layer blocked it,
\* and no other response of the handler (a 500, a relayed upstream status,
\* a success) carries that body.
C14_BlockedResponseFixedAndDistinct ==
    chat.pc = "done" =>
        IF chat.moderated /\ chat.verdict.blocked
        THEN chat.status = 451 /\ chat.body = "BLOCKED_RESPONSE"
        ELSE /\ chat.body \in {"error", "response"}
             /\ <<chat.status, chat.body>> # <<451, "BLOCKED_RESPONSE">>
             /\ chat.body = "error" <=> chat.status # 200

C14_Witness ==
    /\ chat.pc = "done" /\ chat.moderated /\ chat.verdict.blocked
    /\ chat.verdict.layer = "openai"
    /\ chat.status = 451 /\ chat.body = "BLOCKED_RESPONSE"

(***************************************************************************)
(* The /api/vision handler.                                                *)
(***************************************************************************)
\* the prompt of a request: a text of one piece, the empty string, or no
\* prompt at all
VisionPrompts == {StringValue(p) : p \in Pieces} \cup {StringValue(<<>>), NonString}
VisionImages == {"dataUrl", "undefined"}
VisionRequests == [prompt : VisionPrompts, image : VisionImages]

IdleVision(routerEnv) ==
    [pc |-> "idle", routerEnv |-> routerEnv, prompt |-> NonString, image |-> "undefined",
     moderated |-> FALSE, verdict |-> NotBlocked, llmCalls |-> 0, forwarded |-> NonString,
     reply |-> "none", status |-> 0, body |-> "none"]

VisionInit ==
    /\ vision \in {IdleVision(r) : r \in RouterEnvs}
    /\ secret = "" /\ supabase = FALSE
    /\ store = [x \in Emails |-> "absent"]
    /\ req = [i \in Slots |-> IdleSlot]
    /\ mod = NoModeration /\ chat = NoChat /\ ver = NoVerification
    /\ img = NoImage /\ norm = NoNormalize

\* a request arrives: without a usable key it is answered 500, otherwise
\* the prompt and the image go to OpenRouter; moderateText is not called
VisionReceive(r) ==
    /\ vision.pc = "idle"
    /\ LET v == [vision EXCEPT !.prompt = r.prompt, !.image = r.image]
       IN  vision' =
             IF ApiKeyMissing(vision.routerEnv)
             THEN [v EXCEPT !.pc = "done", !.status = 500, !.body = "error"]
             ELSE [v EXCEPT !.pc = "awaitLLM", !.llmCalls = v.llmCalls + 1,
                            !.forwarded = r.prompt]
    /\ UNCHANGED <<secret, supabase, store, req, mod, chat, ver, img, norm>>

\* OpenRouter answers (or the fetch fails): a non-success status is thrown
\* and caught, so every failure is answered 500
VisionReply(reply) ==
    /\ vision.pc = "awaitLLM"
    /\ vision' = [vision EXCEPT
                    !.pc = "done", !.reply = reply.kind,
                    !.status = IF reply.kind = "ok" THEN 200 ELSE 500,
                    !.body = IF reply.kind = "ok" THEN "response" ELSE "error"]
    /\ UNCHANGED <<secret, supabase, store, req, mod, chat, ver, img, norm>>

VisionNext ==
    \/ \E r \in VisionRequests : VisionReceive(r)
    \/ \E reply \in LLMReplies : VisionReply(reply)

SpecVision == VisionInit /\ [][VisionNext]_vars

\* C13: the vision handler sends a prompt to OpenRouter only after
\* moderateText has returned a verdict for that prompt and the verdict is
\* not blocked.
C13_VisionModeratedFirst ==
    vision.llmCalls > 0 => (vision.moderated /\ ~vision.verdict.blocked)

(***************************************************************************)
(* The /api/generate-image handler (Hugging Face revision).                *)
(***************************************************************************)
\* the length of the upstream's script: its answers to successive calls
UpstreamReplies == 3

\* what the Hugging Face endpoint can answer to one call: an image, the
\* 503 'model is loading' status, another non-success status, or no answer
\* at all (fetch throws)
UpstreamKinds == {"ok", "loading", "fatal", "threw"}
UpstreamScripts == [1..UpstreamReplies -> UpstreamKinds]

HfEnvs == {Unset, EnvValue(<<>>), EnvValue(<<"h", "f">>)}
ImagePrompts == {NonString, StringValue(<<>>), StringValue(<<"s">>)}

\* !process.env.HUGGINGFACE_API_KEY
HfKeyMissing(env) == ~env.set \/ env.val = <<>>
\* !prompt: undefined or the empty string
PromptMissing(prompt) == ~prompt.isString \/ prompt.chars = <<>>

\* the handler's answer to what the upstream returned to its call: any
\* non-success status is thrown and caught together with a failed fetch
ImageResponse(kind) ==
    IF kind = "ok" THEN [status |-> 200, body |-> "image"]
    ELSE [status |-> 500, body |-> "Failed to generate image. Please try again later."]

IdleImage(env, script) ==
    [pc |-> "idle", env |-> env, script |-> script, prompt |-> NonString,
     attempts |-> 0, status |-> 0, body |-> "none"]

ImageInit ==
    /\ img \in {IdleImage(e, u) : e \in HfEnvs, u \in UpstreamScripts}
    /\ secret = "" /\ supabase = FALSE
    /\ store = [x \in Emails |-> "absent"]
    /\ req = [i \in Slots |-> IdleSlot]
    /\ mod = NoModeration /\ chat = NoChat /\ ver = NoVerification
    /\ vision = NoVision /\ norm = NoNormalize

\* a request arrives: 500 without the key, 400 without a prompt, otherwise
\* the one fetch of the handler is issued
ImageReceive(prompt) ==
    /\ img.pc = "idle"
    /\ LET g == [img EXCEPT !.prompt = prompt]
       IN  img' =
             IF HfKeyMissing(img.env)
             THEN [g EXCEPT !.pc = "done", !.status = 500,
                            !.body = "Server Config Error: HUGGINGFACE_API_KEY Missing"]
             ELSE IF PromptMissing(prompt)
             THEN [g EXCEPT !.pc = "done", !.status = 400, !.body = "Prompt is required"]
             ELSE [g EXCEPT !.pc = "awaitUpstream", !.attempts = g.attempts + 1]
    /\ UNCHANGED <<secret, supabase, store, req, mod, chat, ver, vision, norm>>

\* the upstream answers the call and the handler responds
ImageReply ==
    /\ img.pc = "awaitUpstream"
    /\ LET answer == ImageResponse(img.script[img.attempts])
       IN  img' = [img EXCEPT !.pc = "done", !.status = answer.status,
                              !.body = answer.body]
    /\ UNCHANGED <<secret, supabase, store, req, mod, chat, ver, vision, norm>>

ImageNext ==
    \/ \E prompt \in ImagePrompts : ImageReceive(prompt)
    \/ ImageReply

SpecImage == ImageInit /\ [][ImageNext]_vars

\* the request got past the key and prompt checks and was answered
ImageCallDone ==
    /\ img.pc = "done"
    /\ ~HfKeyMissing(img.env) /\ ~PromptMissing(img.prompt)

\* C15: when the upstream answers 'model is loading' to the first two
\* attempts and succeeds on the third, the call ends successfully after
\* exactly 3 upstream attempts.
C15_LoadingTwiceThenSuccess ==
    (/\ ImageCallDone
     /\ img.script[1] = "loading" /\ img.script[2] = "loading" /\ img.script[3] = "ok")
    => (img.status = 200 /\ img.attempts = 3)

\* C16: when the upstream always answers 'model is loading', the call ends
\* after exactly 3 upstream attempts (the default maxAttempts) with an error
\* that differs from the one given for a fatal upstream status.
C16_ExhaustionAfterMaxAttempts ==
    (ImageCallDone /\ \A k \in 1..UpstreamReplies : img.script[k] = "loading")
    => /\ img.attempts = 3
       /\ img.status # 200
       /\ <<img.status, img.body>> #
              <<ImageResponse("fatal").status, ImageResponse("fatal").body>>

(***************************************************************************)
(* normalizeKey on its own.                                                *)
(***************************************************************************)
MaxKeyPieces == 5

\* the pieces keys are built from: white space, the two quotes, the 'sk'
\* prefix, the two separators and a digit
KeyPieces == {<<" ">>, <<"'">>, <<"\"">>, <<"s", "k">>, <<"_">>, <<"-">>, <<"1">>}

\* the call starts with undefined (or null) or the empty string
NormalizeInit ==
    /\ norm \in {[pc |-> "in", key |-> k, count |-> 0, result |-> Null] :
                    k \in {Unset, EnvValue(<<>>)}}
    /\ secret = "" /\ supabase = FALSE
    /\ store = [x \in Emails |-> "absent"]
    /\ req = [i \in Slots |-> IdleSlot]
    /\ mod = NoModeration /\ chat = NoChat /\ ver = NoVerification
    /\ vision = NoVision /\ img = NoImage

\* the configured value grows by one piece
ComposeKey(piece) ==
    /\ norm.pc = "in" /\ norm.key.set /\ norm.count < MaxKeyPieces
    /\ norm' = [norm EXCEPT !.key = EnvValue(norm.key.val \o piece),
                            !.count = norm.count + 1]
    /\ UNCHANGED <<secret, supabase, store, req, mod, chat, ver, vision, img>>

\* normalizeKey runs on the value
Normalize ==
    /\ norm.pc = "in"
    /\ norm' = [norm EXCEPT !.pc = "out", !.result = normalizeKey(norm.key)]
    /\ UNCHANGED <<secret, supabase, store, req, mod, chat, ver, vision, img>>

NormalizeNext ==
    \/ \E piece \in KeyPieces : ComposeKey(piece)
    \/ Normalize

SpecNormalize == NormalizeInit /\ [][NormalizeNext]_vars

\* the cleaned form of a string, by positions: what lies between the first
\* and the last character that is not white space, without one quote at
\* its start and one at its end, and without any white space
CleanedForm(s) ==
    LET inner == {k \in 1..Len(s) : ~IsSpace(s[k])}
    IN  IF inner = {} THEN <<>>
        ELSE LET a == CHOOSE k \in inner : \A j \in inner : k <= j
                 b == CHOOSE k \in inner : \A j \in inner : k >= j
                 lo == IF IsQuote(s[a]) THEN a + 1 ELSE a
                 hi == IF b >= lo /\ IsQuote(s[b]) THEN b - 1 ELSE b
                 keep == {k \in lo..hi : ~IsSpace(s[k])}
                 Nth(n) == CHOOSE k \in keep : Cardinality({j \in keep : j <= k}) = n
             IN  [n \in 1..Cardinality(keep) |-> s[Nth(n)]]

C18_EmptyIsNull ==
    (/\ norm.pc = "out"
     /\ \A k \in 1..Len(norm.key.val) : IsSpace(norm.key.val[k]) \/ IsQuote(norm.key.val[k]))
    => norm.result.isNull

(***************************************************************************)
(* Rejected webhook requests, and webhook deliveries handled concurrently. *)
(***************************************************************************)
\* the request of slot i ended in a rejection before any store call
Rejected(i) ==
    /\ req[i].pc = "done"
    /\ req[i].status \in {400, 401, 500}
    /\ req[i].storeResult = "none"

\* C20: a webhook request that ends in a rejection (400, 401, 500 for the
\* missing secret or for an exception raised before the store call) leaves
\* the profiles table exactly as it was when the request arrived.
C20_RejectionLeavesStore ==
    \A i \in Slots : Rejected(i) => store = req[i].before

\* a correctly signed delivery of a qualifying event for a user whose
\* profile is not premium is rejected because it went to another URL form
C20_Witness ==
    /\ Rejected(1) /\ req[1].status = 400
    /\ req[1].r.sigPresent /\ req[1].r.sig = HmacHex(secret, req[1].r.body)
    /\ QualifyingDelivery(req[1].r)
    /\ ParseBody(req[1].r.body).user_email = "a@x"
    /\ store["a@x"] = "free"

\* verified deliveries of qualifying events that name a user
ConcurrentDeliveries ==
    {[url |-> WebhookPath, body |-> b, sigPresent |-> TRUE, sig |-> HmacHex("s1", b)] :
        b \in {bb \in Bodies : /\ bb[1] \in {0, 1} /\ bb[2] \in {1, 2}
                               /\ \A k \in 3..BodyLen : bb[k] = 0}}

ConcurrentInit ==
    /\ secret \in Secrets
    /\ supabase \in BOOLEAN
    /\ store \in [Emails -> {"absent", "free", "premium"}]
    /\ req = [i \in Slots |-> IdleSlot]
    /\ mod = NoModeration /\ chat = NoChat /\ ver = NoVerification
    /\ vision = NoVision /\ img = NoImage /\ norm = NoNormalize

\* deliveries arrive at any free slot and the awaited updates complete in
\* any order
ConcurrentNext ==
    \/ \E i \in Slots : \E r \in ConcurrentDeliveries : WebhookReceive(i, r)
    \/ \E i \in Slots : \E result \in StoreOutcomes : StoreReply(i, result)

SpecConcurrent == ConcurrentInit /\ [][ConcurrentNext]_vars

\* every slot has handled a delivery and acknowledged it
AllAcknowledged == \A i \in Slots : req[i].pc = "done" /\ req[i].status = 200

Targeted(e) == \E i \in Slots : ParseBody(req[i].r.body).user_email = e

\* C19: once concurrently handled verified qualifying deliveries have all
\* been acknowledged, whatever the order of their store writes, each
\* targeted user is premium and every other record is as it was.
C19_ConcurrentDeliveriesConverge ==
    AllAcknowledged =>
        \A e \in Emails :
            IF Targeted(e) THEN store[e] = "premium"
            ELSE \A i \in Slots : store[e] = req[i].before[e]

(***************************************************************************)
(* The store write and the raw-body capture of the webhook handler.        *)
(***************************************************************************)
\* C21: after a verified qualifying event for the email e was answered 200
\* with the store write carried out, the table holds a record for e with
\* is_premium = true, whether or not it held one before.
C21_WriteIsUpsert ==
    \A i \in Slots :
        (/\ req[i].pc = "done" /\ req[i].status = 200 /\ req[i].storeResult = "ok"
         /\ req[i].email \in Emails)
        => /\ store[req[i].email] # "absent"
           /\ store[req[i].email] = "premium"

\* C28: a correctly signed delivery that Express routes to the handler,
\* whatever the form of its URL, is never answered 400: its raw body was
\* captured.
C28_RoutedDeliveryHasRawBody ==
    \A i \in Slots :
        (/\ req[i].pc = "done" /\ secret # ""
         /\ req[i].r.url \in Urls
         /\ req[i].r.sigPresent /\ req[i].r.sig = HmacHex(secret, req[i].r.body))
        => (RawBodyCaptured(req[i].r) /\ req[i].status # 400)

(***************************************************************************)
(* The two layers of moderateText.                                         *)
(***************************************************************************)
\* the classifier was called, answered with a success status and its first
\* result has flagged set
ClassifierFlagged ==
    /\ mod.text.isString /\ mod.text.chars # <<>>
    /\ Truthy(normalizeKey(mod.env))
    /\ mod.reply.kind \in {"flagged", "flaggedNoCategories"}

\* C22: when the classifier call succeeds with flagged = true, whatever the
\* shape of the result, moderateText returns blocked with the classifier's
\* layer and the triggered categories, and the keyword layer does not run.
C22_FlaggedAlwaysBlocks ==
    (mod.pc = "out" /\ ClassifierFlagged) =>
        /\ mod.verdict.blocked
        /\ mod.verdict.layer = "openai"
        /\ mod.verdict.categories = mod.reply.categories
        /\ mod.verdict.term = <<>>

\* C23: the keyword layer blocks a text only where a term has the start of
\* the string or white space before it and white space or the end of the
\* string after it; a term next to punctuation is no match.
C23_WhitespaceDelimitedOnly ==
    (/\ mod.pc = "out" /\ mod.text.isString
     /\ mod.verdict.blocked /\ mod.verdict.layer = "keyword")
    => DelimitedWord(mod.verdict.term, mod.text.chars)

(***************************************************************************)
(* What the chat handler scans and what it forwards.                       *)
(***************************************************************************)
\* the content of the message with the greatest index among those with
\* role 'user', the empty string when there is none
LastUserContent(messages) ==
    LET users == {k \in 1..Len(messages) : messages[k].role = "user"}
    IN  IF users = {} THEN StringValue(<<>>)
        ELSE messages[CHOOSE k \in users : \A j \in users : j <= k].content

\* C24: the verdict of the chat handler rests on the last user message
\* alone: it is the one value handed to moderateText, a keyword block names
\* a term that matches it, and when it passes the whole message list goes
\* to the LLM unchanged.
C24_OnlyLastUserMessageScanned ==
    LET last == LastUserContent(chat.messages)
    IN  /\ (chat.moderated \/ chat.pc = "awaitClassifier") => chat.scanned = last
        /\ (chat.verdict.blocked /\ chat.verdict.layer = "keyword")
               => /\ last.isString
                  /\ PatternTest(chat.verdict.term, ToLower(last.chars))
        /\ chat.llmCalls > 0 => chat.forwarded = chat.messages
        /\ (chat.moderated /\ ~chat.verdict.blocked)
               => (chat.llmCalls = 1 /\ chat.forwarded = chat.messages)

\* an earlier user message holds a blocklisted word, the last one does not
C24_Witness ==
    /\ chat.pc = "done" /\ chat.status = 200
    /\ chat.messages = <<[role |-> "user", content |-> StringValue(<<"G", "u", "n">>)],
                         [role |-> "user", content |-> StringValue(<<"s">>)]>>
    /\ chat.moderated /\ ~chat.verdict.blocked
    /\ chat.forwarded = chat.messages

\* C25: when the last user message is empty or is no string, the classifier
\* is not called, moderateText (if called at all) returns not blocked
\* whatever the classifier would answer, and the request goes to the LLM.
C25_EmptyOrNonStringPasses ==
    LET last == LastUserContent(chat.messages)
    IN  (/\ chat.pc # "idle" /\ ~ApiKeyMissing(chat.routerEnv)
         /\ (~last.isString \/ last.chars = <<>>))
        => /\ chat.pc # "awaitClassifier" /\ chat.classifierCalls = 0
           /\ ~chat.verdict.blocked /\ chat.body # "BLOCKED_RESPONSE"
           /\ chat.llmCalls = 1 /\ chat.forwarded = chat.messages
           /\ \A reply \in ClassifierReplies \cup {NotCalled} :
                  moderateText(last, chat.openAiEnv, reply) = NotBlocked

\* a last user message that is an array of parts, with the classifier
\* configured, is handed to moderateText and passes
C25_Witness ==
    /\ chat.pc = "done" /\ chat.status = 200
    /\ Len(chat.messages) > 0
    /\ LastUserContent(chat.messages) = NonString
    /\ Truthy(normalizeKey(chat.openAiEnv))
    /\ chat.moderated /\ chat.scanned = NonString
    /\ chat.classifierCalls = 0 /\ chat.llmCalls = 1

(***************************************************************************)
(* The /api/generate-image proxy route (Pollinations revision, GET).       *)
(***************************************************************************)
PollinationsEnvs == {Unset, EnvValue(<<>>), EnvValue(<<"p", "k">>)}
\* req.query.prompt: present or undefined; the route does not check it
ProxyPrompts == {NonString, StringValue(<<"s">>)}

\* if (apiKey)
HasPollinationsKey(env) == env.set /\ env.val # <<>>

\* response.ok of an upstream answer
UpstreamOk(kind) == kind = "ok"

\* calls lists the URLs fetched so far, answers what each fetch returned
IdleProxy(env, script) ==
    [pc |-> "idle", env |-> env, script |-> script, prompt |-> NonString,
     calls |-> <<>>, answers |-> <<>>, status |-> 0, body |-> "none"]

ProxyInit ==
    /\ img \in {IdleProxy(e, u) : e \in PollinationsEnvs, u \in UpstreamScripts}
    /\ secret = "" /\ supabase = FALSE
    /\ store = [x \in Emails |-> "absent"]
    /\ req = [i \in Slots |-> IdleSlot]
    /\ mod = NoModeration /\ chat = NoChat /\ ver = NoVerification
    /\ vision = NoVision /\ norm = NoNormalize

\* the response once the last fetch has answered: the image is piped, or
\* the error is thrown and caught
ProxyRespond(g, kind) ==
    IF UpstreamOk(kind)
    THEN [g EXCEPT !.pc = "done", !.status = 200, !.body = "image"]
    ELSE [g EXCEPT !.pc = "done", !.status = 500,
                   !.body = "Failed to generate image. Please try again."]

\* a request arrives: the premium URL is fetched when a key is configured,
\* the free URL otherwise
ProxyReceive(prompt) ==
    /\ img.pc = "idle"
    /\ img' = IF HasPollinationsKey(img.env)
              THEN [img EXCEPT !.prompt = prompt, !.pc = "awaitPremium",
                               !.calls = <<"premium">>]
              ELSE [img EXCEPT !.prompt = prompt, !.pc = "awaitFree",
                               !.calls = <<"free">>]
    /\ UNCHANGED <<secret, supabase, store, req, mod, chat, ver, vision, norm>>

\* the premium fetch answers: a rejected fetch goes to the catch block, a
\* non-success status switches to the free URL, a success is piped
ProxyPremiumReply ==
    /\ img.pc = "awaitPremium"
    /\ LET kind == img.script[Len(img.calls)]
           g == [img EXCEPT !.answers = Append(img.answers, kind)]
       IN  img' = IF kind = "threw" \/ UpstreamOk(kind) THEN ProxyRespond(g, kind)
                  ELSE [g EXCEPT !.pc = "awaitFree", !.calls = Append(g.calls, "free")]
    /\ UNCHANGED <<secret, supabase, store, req, mod, chat, ver, vision, norm>>

\* the free fetch answers and the handler responds
ProxyFreeReply ==
    /\ img.pc = "awaitFree"
    /\ LET kind == img.script[Len(img.calls)]
       IN  img' = ProxyRespond([img EXCEPT !.answers = Append(img.answers, kind)], kind)
    /\ UNCHANGED <<secret, supabase, store, req, mod, chat, ver, vision, norm>>

ProxyNext ==
    \/ \E prompt \in ProxyPrompts : ProxyReceive(prompt)
    \/ ProxyPremiumReply
    \/ ProxyFreeReply

SpecImageProxy == ProxyInit /\ [][ProxyNext]_vars

\* C26: after an upstream answer with a non-success status other than
\* 'model is loading', the handler makes no further upstream call in the
\* request and answers with the failure.
C26_FatalStatusEndsRequest ==
    \A k \in 1..Len(img.answers) :
        img.answers[k] = "fatal" =>
            /\ Len(img.calls) = k
            /\ img.pc = "done" /\ img.status = 500

\* C27: with a key configured the premium URL is fetched first and, when
\* that attempt fails by a non-success status or by the fetch raising an
\* error, the free URL is fetched exactly once before the request is
\* answered 500; without a key the free URL alone is fetched; a request
\* makes at most two upstream calls.
C27_FreeTierFallback ==
    img.pc = "done" =>
        /\ Len(img.calls) <= 2
        /\ ~HasPollinationsKey(img.env) => img.calls = <<"free">>
        /\ HasPollinationsKey(img.env) =>
              /\ img.calls[1] = "premium"
              /\ img.answers[1] # "ok" => img.calls = <<"premium", "free">>
              /\ img.answers[1] = "ok" => img.calls = <<"premium">>
        /\ img.status = 500 <=> img.answers[Len(img.answers)] # "ok"

(***************************************************************************)
(* The separator rewrite of normalizeKey and its repeated application.     *)
(***************************************************************************)
\* an ASCII letter or digit among the characters keys are built from
IsAlphanumeric(c) == c \in {"s", "k", "1"}

\* C29: normalizeKey inserts the separator only into keys that are purely
\* alphanumeric after the leading 'sk': a cleaned key that starts with 'sk'
\* and holds a character that is no letter or digit later on is returned
\* without the rewrite.
C29_RewriteOnlyAlphanumeric ==
    (norm.pc = "out" /\ norm.key.set /\ norm.key.val # <<>>) =>
        LET c == CleanedForm(norm.key.val)
        IN  (/\ Len(c) >= 2 /\ c[1] = "s" /\ c[2] = "k"
             /\ \E k \in 3..Len(c) : ~IsAlphanumeric(c[k]))
            => norm.result.val = c

\* C30: a result of normalizeKey that is a non-empty string is returned
\* unchanged by a second application, holds no white space and neither
\* begins nor ends with a quote.
C30_Idempotent ==
    (norm.pc = "out" /\ ~norm.result.isNull /\ norm.result.val # <<>>) =>
        LET v == norm.result.val
        IN  /\ normalizeKey(EnvValue(v)) = norm.result
            /\ \A k \in 1..Len(v) : ~IsSpace(v[k])
            /\ ~IsQuote(v[1]) /\ ~IsQuote(v[Len(v)])

====
